---------------------------- MODULE Spec2Model ----------------------------
(***************************************************************************)
(* Voice capture and transcription pipeline of the VoiceInput component.   *)
(*                                                                         *)
(* The repository holds four versions of the component:                    *)
(*   "stream"  src/client/src/components/ui/voice-input.tsx lines 1-176    *)
(*             (token fetch, WebSocket, MediaRecorder chunks every 250 ms) *)
(*   "batch"   src/client/src/components/ui/voice-input.tsx lines 177-387  *)
(*             (MediaRecorder, 5 s auto-stop, one HTTP transcription)      *)
(*   "hybrid"  src/unnamed/part_000 (batch, plus currentTranscript and a   *)
(*             'Recording...' placeholder delivered to onPartialTranscript)*)
(*   "batch15" src/unnamed/part_001 (batch, 15 s auto-stop, placeholder)   *)
(* and two text fields that consume the transcripts:                       *)
(*   TextareaWithVoice (textarea-with-voice.tsx), the consumer of          *)
(*   VoiceInput, and MathTextarea (math-textarea.tsx, variant "math"),     *)
(*   whose handlers are driven by a speech component that is not part of   *)
(*   the sources and is modelled as the environment calling them.          *)
(*                                                                         *)
(* One behaviour of the model is one mounted component of one version:     *)
(* Init chooses the version.  Every startRecording() invocation is a       *)
(* session s in 1..MaxSessions; the locals of the invocation (stream,      *)
(* socket, mediaRecorder, hasAudio, the interval and the timer) are the    *)
(* functions indexed by s, the React refs and state are shared.  Each      *)
(* action is one task of the browser's event loop: a handler runs to       *)
(* completion, or to its next await.                                       *)
(***************************************************************************)
EXTENDS Integers, Sequences, FiniteSets

\* ------------------------------------------------------------ bounds
MaxSessions == 2
MaxMsgs == 2
MaxChunks == 1
MaxFrames == 2
MaxEdits == 1
MaxSamples == 6

\* -------------------------------------------------- program constants
\* ondataavailable keeps a chunk only when event.data.size > 1000
MinChunkSize == 1000
\* onstop rejects a blob with audioBlob.size < 2000
MinBlobSize == 2000
\* checkAudioLevel: average > 10 (voice-input.tsx), average > 15 (part_000, part_001)
ThresholdBatch == 10
ThresholdHybrid == 15
ThresholdBatch15 == 15

Sessions == 1..MaxSessions
Variants == {"stream", "batch", "hybrid", "batch15", "math"}
BatchVariants == {"batch", "hybrid", "batch15"}
\* the versions whose props include onPartialTranscript
PlaceholderVariants == {"hybrid", "batch15"}

\* Sizes of the blobs a MediaRecorder hands to ondataavailable.
ChunkSizes == {1000, 1500, 2000}
\* Averages of the analyser's byte frequency data.
Levels == {5, 12, 20}
\* Texts are sequences of characters; " " is white space.
MsgTexts == {<<>>, <<"h">>, <<"h", "i">>}
\* The inbound messages: partial and final results, and a session control
\* message, which carries no text.
Messages ==
    {[type |-> ty, text |-> tx] : ty \in {"PartialTranscript", "FinalTranscript"},
                                  tx \in MsgTexts}
    \cup {[type |-> "SessionBegins", text |-> <<>>]}
RespTexts == {<<>>, <<" ">>, <<" ", "a">>, <<"a">>}
EditValues == {<<>>, <<"x">>}
\* What the transcription request can come back with: the fetch rejects, the
\* status is not ok, or a JSON body whose text field may be missing.
Responses ==
    {[kind |-> "reject", hasText |-> FALSE, text |-> <<>>],
     [kind |-> "http", hasText |-> FALSE, text |-> <<>>],
     [kind |-> "ok", hasText |-> FALSE, text |-> <<>>]}
    \cup {[kind |-> "ok", hasText |-> TRUE, text |-> t] : t \in RespTexts}

VARIABLES
    variant,            \* which version of the component is mounted
    mounted,            \* FALSE once the effect cleanup has run
    isListening,        \* useState(false)
    error,              \* useState(null): "null" or the kind of the message
    currentTranscript,  \* useState('') of part_000
    mediaRecorderRef,   \* useRef: 0 is null, else the session owning the recorder
    streamRef,          \* useRef: 0 is null, else the session owning the stream
    socketRef,          \* useRef: 0 is null, else the session owning the socket
    audioChunksRef,     \* useRef([]): sequence of [s, size]
    nStarted,           \* startRecording() invocations so far
    pc,                 \* where each invocation of startRecording is
    stream,             \* MediaStream of the session: none, live, stopped
    socket,             \* WebSocket readyState of the session, or none
    recorder,           \* MediaRecorder state of the session, or none
    recEvt,             \* the task recorder.stop() queues: none, queued, done
    hasAudio,           \* the local hasAudio / hasDetectedAudio
    interval,           \* audioCheckInterval is set
    timer,              \* the auto-stop setTimeout is pending
    fetch,              \* the transcription request: none, inflight, done
    payload,            \* the chunks of the blob the request in flight carries
    nFrames,            \* periodic dataavailable events of the stream version
    reads,              \* FileReader reads in progress (chunk numbers)
    sent,               \* socket.send calls: <<chunk, readyState at the call>>; chunk 0 is the terminate message
    inbox,              \* messages received on the sockets, in order
    delivered,          \* onTranscript calls, in order: [s, text]
    placeholder,        \* onPartialTranscript('Recording...') calls per session
    value,              \* the text field's value prop
    toggleValue,        \* the value closed over by the memoized handleToggle
    capValue,           \* the value closed over by each session's onTranscript
    interimText,        \* useState('') of MathTextarea
    edits,              \* edits of the field by the user so far
    failed,             \* history: a failure happened in the session
    errs,               \* history: setError(message) calls per session
    report,             \* history: the last message kind each session set
    httpReqs,           \* history: transcription requests per session
    cancelled,          \* history: stopRecording ran while the request was in flight
    stopsInRow,         \* history: stopRecording calls since the last start activity (2: two or more)
    lateTimer,          \* history: a timer fired on a stopped recorder while another one recorded
    samples,            \* the input buffer of the processing callback (thousandths)
    pcm                 \* the 16-bit samples made from it

refs == <<mediaRecorderRef, streamRef, socketRef, audioChunksRef>>
comp == <<variant, mounted, isListening, error, currentTranscript>>
sess == <<nStarted, pc, stream, socket, recorder, recEvt, hasAudio, interval, timer,
          fetch, payload, nFrames, reads, sent>>
cons == <<inbox, delivered, placeholder, value, toggleValue, capValue, interimText, edits>>
hist == <<failed, errs, report, httpReqs, cancelled, stopsInRow>>
dsp == <<samples, pcm>>
vars == <<refs, comp, sess, cons, hist, dsp, lateTimer>>

\* ------------------------------------------------------------ helpers
Last(q) == q[Len(q)]

RECURSIVE TrimLeft(_)
TrimLeft(t) == IF t = <<>> THEN <<>>
               ELSE IF Head(t) = " " THEN TrimLeft(Tail(t)) ELSE t

RECURSIVE TrimRight(_)
TrimRight(t) == IF t = <<>> THEN <<>>
                ELSE IF Last(t) = " " THEN TrimRight(SubSeq(t, 1, Len(t) - 1)) ELSE t

\* String.prototype.trim
Trim(t) == TrimRight(TrimLeft(t))

RECURSIVE BlobSize(_)
\* new Blob(audioChunksRef.current).size: the sum of the parts' sizes
BlobSize(q) == IF q = <<>> THEN 0 ELSE Head(q).size + BlobSize(Tail(q))

Threshold == CASE variant = "batch" -> ThresholdBatch
               [] variant = "hybrid" -> ThresholdHybrid
               [] OTHER -> ThresholdBatch15

\* handleVoiceTranscript of TextareaWithVoice, onChange branch: the new value
\* made from the value prop the handler closed over.
PlainAppend(cur, t) == IF cur # <<>> THEN cur \o <<" ">> \o t ELSE t

\* handleVoiceTranscript of MathTextarea, onChange branch.
MathAppend(cur, t) ==
    LET separator == IF cur # <<>> /\ Last(cur) # " " THEN <<" ">> ELSE <<>>
    IN  cur \o separator \o t

\* handleToggle = useCallback(..., [isListening]): the callback, and with it the
\* onTranscript prop and the field value that prop closed over, is renewed by
\* the render that follows a change of isListening.
Memo(listening) == IF listening # isListening THEN value ELSE toggleValue


\* ------------------------------------------------------- initial state
Init ==
    /\ variant \in Variants
    /\ mounted = TRUE
    /\ isListening = FALSE
    /\ error = "null"
    /\ currentTranscript = <<>>
    /\ mediaRecorderRef = 0
    /\ streamRef = 0
    /\ socketRef = 0
    /\ audioChunksRef = <<>>
    /\ nStarted = 0
    /\ pc = [s \in Sessions |-> "unused"]
    /\ stream = [s \in Sessions |-> "none"]
    /\ socket = [s \in Sessions |-> "none"]
    /\ recorder = [s \in Sessions |-> "none"]
    /\ recEvt = [s \in Sessions |-> "none"]
    /\ hasAudio = [s \in Sessions |-> FALSE]
    /\ interval = [s \in Sessions |-> FALSE]
    /\ timer = [s \in Sessions |-> FALSE]
    /\ fetch = [s \in Sessions |-> "none"]
    /\ payload = [s \in Sessions |-> <<>>]
    /\ nFrames = [s \in Sessions |-> 0]
    /\ reads = [s \in Sessions |-> {}]
    /\ sent = [s \in Sessions |-> <<>>]
    /\ inbox = <<>>
    /\ delivered = <<>>
    /\ placeholder = [s \in Sessions |-> "never"]
    /\ value = <<>>
    /\ toggleValue = <<>>
    /\ capValue = [s \in Sessions |-> <<>>]
    /\ interimText = <<>>
    /\ edits = 0
    /\ failed = [s \in Sessions |-> FALSE]
    /\ errs = [s \in Sessions |-> 0]
    /\ report = [s \in Sessions |-> "null"]
    /\ httpReqs = [s \in Sessions |-> 0]
    /\ cancelled = [s \in Sessions |-> FALSE]
    /\ stopsInRow = 0
    /\ lateTimer = FALSE
    /\ samples = <<>>
    /\ pcm = <<>>

\* ------------------------------------------------- shared sub-steps
\* setError(message) by a handler of session s, after a failure of that session.
Fail(s, kind) ==
    /\ error' = kind
    /\ failed' = [failed EXCEPT ![s] = TRUE]
    /\ errs' = [errs EXCEPT ![s] = @ + 1]
    /\ report' = [report EXCEPT ![s] = kind]

\* A handler that calls the prop twice.
DeliverTwice(s, t) ==
    /\ delivered' = delivered \o <<[s |-> s, text |-> t], [s |-> s, text |-> t]>>
    /\ value' = PlainAppend(capValue[s], t)

\* onTranscript(t) called by a handler of session s: the prop is the
\* handleVoiceTranscript that the session's startRecording closed over, and the
\* parent stores the value its onChange receives.
Deliver(s, t) ==
    /\ delivered' = Append(delivered, [s |-> s, text |-> t])
    /\ value' = PlainAppend(capValue[s], t)

\* A stopRecording that does not look at the recorder's state.
RecorderAssigned == mediaRecorderRef # 0

\* mediaRecorderRef.current && mediaRecorderRef.current.state !== 'inactive'
RecorderToStop ==
    mediaRecorderRef # 0 /\ recorder[mediaRecorderRef] = "recording"

\* A stopRecording that stops the tracks and leaves the ref set.
StreamRefKept == streamRef

\* streamRef.current after stopRecording
StreamRefAfterStop == 0

\* socketRef.current after stopRecording
SocketRefAfterStop == 0

\* Whether stopRecording sends {terminate_session: true} on an open socket before
\* closing it: part_000 does, the stopRecording of voice-input.tsx does not.
TerminateOnStop == variant = "hybrid"

\* stopRecording(), run on the socket states sk (those of the moment of the
\* call).  The refs
\* audioContextRef and processorRef of part_000 are never assigned, so their
\* branches never run; currentTranscript is only ever set to ''.
StopRecording(sk) ==
    /\ recorder' = IF RecorderToStop
                   THEN [recorder EXCEPT ![mediaRecorderRef] = "inactive"]
                   ELSE recorder
    /\ recEvt' = IF RecorderToStop
                 THEN [recEvt EXCEPT ![mediaRecorderRef] = "queued"]
                 ELSE recEvt
    /\ stream' = IF streamRef # 0
                 THEN [stream EXCEPT ![streamRef] = "stopped"]
                 ELSE stream
    /\ streamRef' = StreamRefAfterStop
    /\ socket' = IF socketRef # 0
                 THEN [sk EXCEPT ![socketRef] =
                          IF @ \in {"CONNECTING", "OPEN"} THEN "CLOSING" ELSE @]
                 ELSE sk
    /\ sent' = IF socketRef # 0 /\ TerminateOnStop /\ sk[socketRef] = "OPEN"
               THEN [sent EXCEPT ![socketRef] = Append(@, <<0, "OPEN">>)]
               ELSE sent
    /\ socketRef' = SocketRefAfterStop
    /\ IF variant = "hybrid" /\ Trim(currentTranscript) # <<>>
       THEN /\ delivered' = Append(delivered, [s |-> 0, text |-> Trim(currentTranscript)])
            /\ value' = PlainAppend(toggleValue, Trim(currentTranscript))
       ELSE UNCHANGED <<delivered, value>>
    /\ currentTranscript' = <<>>
    /\ isListening' = FALSE
    /\ toggleValue' = Memo(FALSE)
    /\ cancelled' = [s \in Sessions |-> cancelled[s] \/ fetch[s] = "inflight"]
    /\ stopsInRow' = IF stopsInRow = 0 THEN 1 ELSE 2
    /\ UNCHANGED mediaRecorderRef

\* ------------------------------------------------- the toggle button
\* handleToggle with isListening false: startRecording() runs to its first await.
ToggleStart ==
    /\ mounted
    /\ variant # "math"
    /\ ~isListening
    /\ nStarted < MaxSessions
    /\ nStarted' = nStarted + 1
    /\ pc' = [pc EXCEPT ![nStarted + 1] =
                 IF variant = "stream" THEN "awaitToken" ELSE "awaitMic"]
    /\ capValue' = [capValue EXCEPT ![nStarted + 1] = toggleValue]
    /\ stopsInRow' = 0
    /\ UNCHANGED <<dsp, lateTimer, refs, comp, stream, socket, recorder, recEvt, hasAudio, interval,
                   timer, fetch, payload, nFrames, reads, sent, inbox, delivered,
                   placeholder, value, toggleValue, interimText, edits, failed, errs,
                   report, httpReqs, cancelled>>

\* handleToggle with isListening true: stopRecording().
ToggleStop ==
    /\ mounted
    /\ variant # "math"
    /\ isListening
    /\ StopRecording(socket)
    /\ UNCHANGED <<dsp, lateTimer, audioChunksRef, variant, mounted, error, nStarted, pc, hasAudio,
                   interval, timer, fetch, payload, nFrames, reads, inbox,
                   placeholder, capValue, interimText, edits, failed, errs, report,
                   httpReqs>>

\* The cleanup of useEffect(..., []): stopRecording() when the component unmounts.
Unmount ==
    /\ mounted
    /\ variant # "math"
    /\ mounted' = FALSE
    /\ StopRecording(socket)
    /\ UNCHANGED <<dsp, lateTimer, audioChunksRef, variant, error, nStarted, pc, hasAudio,
                   interval, timer, fetch, payload, nFrames, reads, inbox,
                   placeholder, capValue, interimText, edits, failed, errs, report,
                   httpReqs>>

\* The user types in the field: the parent's onChange stores the new value.
UserEdit(v) ==
    /\ mounted
    /\ edits < MaxEdits
    /\ v # value
    /\ value' = v
    /\ edits' = edits + 1
    /\ UNCHANGED <<dsp, lateTimer, refs, comp, sess, inbox, delivered, placeholder, toggleValue,
                   capValue, interimText, hist>>

\* ------------------------------------------------- batch versions
\* getUserMedia rejects: the catch block of startRecording.
MicDenied(s) ==
    /\ variant # "math"
    /\ pc[s] = "awaitMic"
    /\ pc' = [pc EXCEPT ![s] = "caught"]
    /\ Fail(s, "Permission")
    /\ isListening' = FALSE
    /\ toggleValue' = Memo(FALSE)
    /\ stopsInRow' = 0
    /\ UNCHANGED <<dsp, lateTimer, refs, variant, mounted, currentTranscript, nStarted, stream, socket,
                   recorder, recEvt, hasAudio, interval, timer, fetch, payload, nFrames,
                   reads, sent, inbox, delivered, placeholder, value, capValue,
                   interimText, edits, httpReqs, cancelled>>

\* getUserMedia resolves: startRecording runs from the await to its end.  recOk is
\* whether new MediaRecorder(stream, {mimeType}) succeeds; it throws
\* NotSupportedError where the mime type is not supported, and the catch block runs.
MicGrantedBatch(s, recOk) ==
    /\ variant \in BatchVariants
    /\ pc[s] = "awaitMic"
    /\ stream' = [stream EXCEPT ![s] = "live"]
    /\ streamRef' = s
    /\ audioChunksRef' = <<>>
    /\ currentTranscript' = <<>>
    /\ stopsInRow' = 0
    /\ IF recOk
       THEN /\ mediaRecorderRef' = s
            /\ recorder' = [recorder EXCEPT ![s] = "recording"]
            /\ hasAudio' = [hasAudio EXCEPT ![s] = FALSE]
            /\ interval' = [interval EXCEPT ![s] = TRUE]
            /\ timer' = [timer EXCEPT ![s] = TRUE]
            /\ pc' = [pc EXCEPT ![s] = "running"]
            /\ isListening' = TRUE
            /\ error' = "null"
            /\ toggleValue' = Memo(TRUE)
            /\ UNCHANGED <<failed, errs, report>>
       ELSE /\ pc' = [pc EXCEPT ![s] = "caught"]
            /\ Fail(s, "Recorder")
            /\ isListening' = FALSE
            /\ toggleValue' = Memo(FALSE)
            /\ UNCHANGED <<mediaRecorderRef, recorder, hasAudio, interval, timer>>
    /\ UNCHANGED <<dsp, lateTimer, socketRef, variant, mounted, nStarted, socket, recEvt, fetch, payload,
                   nFrames, reads, sent, inbox, delivered, placeholder, value, capValue,
                   interimText, edits, httpReqs, cancelled>>

\* average > threshold in checkAudioLevel
Loud(avg) == avg > Threshold

\* checkAudioLevel, a tick of audioCheckInterval.  A stopped track feeds the
\* analyser silence.
CheckAudioLevel(s, avg) ==
    /\ variant \in BatchVariants
    /\ interval[s]
    /\ stream[s] # "live" => avg = 5
    /\ hasAudio' = [hasAudio EXCEPT ![s] = @ \/ Loud(avg)]
    /\ placeholder' =
         IF variant \in PlaceholderVariants /\ hasAudio'[s]
         THEN [placeholder EXCEPT ![s] =
                  IF recorder[s] = "recording" /\ @ # "afterStop"
                  THEN "recording" ELSE "afterStop"]
         ELSE placeholder
    /\ UNCHANGED <<dsp, lateTimer, refs, comp, nStarted, pc, stream, socket, recorder, recEvt, interval,
                   timer, fetch, payload, nFrames, reads, sent, inbox, delivered, value,
                   toggleValue, capValue, interimText, edits, hist>>

\* event.data.size > 1000 in ondataavailable
KeepChunk(size) == size > MinChunkSize

\* mediaRecorder.ondataavailable for a blob of the given size
Pushed(chunks, s, size) ==
    IF KeepChunk(size) THEN Append(chunks, [s |-> s, size |-> size]) ELSE chunks

\* A periodic dataavailable event of mediaRecorder.start(100).
DataAvailable(s, size) ==
    /\ variant \in BatchVariants
    /\ recorder[s] = "recording"
    /\ Len(audioChunksRef) < MaxChunks
    /\ audioChunksRef' = Pushed(audioChunksRef, s, size)
    /\ UNCHANGED <<dsp, lateTimer, mediaRecorderRef, streamRef, socketRef, comp, sess, cons, hist>>

\* An onstop whose first gate looks at the chunks only.
NoSpeechIgnoringLevel(s, chunks) == chunks = <<>>

\* !hasAudio || audioChunksRef.current.length === 0 in onstop
NoSpeech(s, chunks) == ~hasAudio[s] \/ chunks = <<>>

\* audioBlob.size < 2000 in onstop
TooShort(chunks) == BlobSize(chunks) < MinBlobSize

\* The task mediaRecorder.stop() queues: the last dataavailable event, then the
\* stop event, whose handler runs to its await of fetch.
StopTask(s, size) ==
    /\ variant \in BatchVariants
    /\ recEvt[s] = "queued"
    /\ recEvt' = [recEvt EXCEPT ![s] = "done"]
    /\ interval' = [interval EXCEPT ![s] = FALSE]
    /\ audioChunksRef' = <<>>
    /\ LET chunks == Pushed(audioChunksRef, s, size)
       IN  IF NoSpeech(s, chunks)
           THEN /\ Fail(s, "NoSpeech")
                /\ UNCHANGED <<fetch, payload, httpReqs>>
           ELSE IF TooShort(chunks)
           THEN /\ Fail(s, "TooShort")
                /\ UNCHANGED <<fetch, payload, httpReqs>>
           ELSE /\ fetch' = [fetch EXCEPT ![s] = "inflight"]
                /\ payload' = [payload EXCEPT ![s] = chunks]
                /\ httpReqs' = [httpReqs EXCEPT ![s] = @ + 1]
                /\ UNCHANGED <<error, failed, errs, report>>
    /\ UNCHANGED <<dsp, lateTimer, mediaRecorderRef, streamRef, socketRef, variant, mounted, isListening,
                   currentTranscript, nStarted, pc, stream, socket, recorder, hasAudio,
                   timer, nFrames, reads, sent, cons, cancelled, stopsInRow>>

\* An onstop that tests the text without trimming it.
HasTextUntrimmed(r) == r.hasText /\ r.text # <<>>

\* text && text.trim() in onstop
HasText(r) == r.hasText /\ r.text # <<>> /\ Trim(r.text) # <<>>

\* The transcription request settles: onstop runs from the await of fetch to its
\* end (response.json() is awaited next, with nothing of the component's changing
\* in between).
FetchDone(s, r) ==
    /\ variant \in BatchVariants
    /\ fetch[s] = "inflight"
    /\ fetch' = [fetch EXCEPT ![s] = "done"]
    /\ payload' = [payload EXCEPT ![s] = <<>>]
    /\ IF r.kind = "ok" /\ HasText(r)
       THEN /\ Deliver(s, Trim(r.text))
            /\ error' = "null"
            /\ UNCHANGED <<failed, errs, report>>
       ELSE /\ Fail(s, IF r.kind = "ok" THEN "Empty" ELSE "Transcription")
            /\ UNCHANGED <<delivered, value>>
    /\ currentTranscript' = <<>>
    /\ UNCHANGED <<dsp, lateTimer, refs, variant, mounted, isListening, nStarted, pc, stream, socket,
                   recorder, recEvt, hasAudio, interval, timer, nFrames, reads,
                   sent, inbox, placeholder, toggleValue, capValue, interimText, edits,
                   httpReqs, cancelled, stopsInRow>>

\* A timer callback that is lost: the timer is disarmed and nothing is stopped.
TimerFireLost(s) ==
    /\ variant \in BatchVariants
    /\ timer[s]
    /\ timer' = [timer EXCEPT ![s] = FALSE]
    /\ UNCHANGED <<refs, comp, nStarted, pc, stream, socket, recorder, recEvt, hasAudio,
                   interval, fetch, payload, nFrames, reads, sent, cons, hist, dsp,
                   lateTimer>>

\* A timer callback that stops whatever recorder mediaRecorderRef holds.
TimerFireByRef(s) ==
    /\ variant \in BatchVariants
    /\ timer[s]
    /\ timer' = [timer EXCEPT ![s] = FALSE]
    /\ lateTimer' = (lateTimer \/ (recorder[s] # "recording"
                                      /\ \E u \in Sessions : recorder[u] = "recording"))
    /\ IF RecorderToStop
       THEN /\ recorder' = [recorder EXCEPT ![mediaRecorderRef] = "inactive"]
            /\ recEvt' = [recEvt EXCEPT ![mediaRecorderRef] = "queued"]
            /\ isListening' = FALSE
            /\ toggleValue' = Memo(FALSE)
       ELSE UNCHANGED <<recorder, recEvt, isListening, toggleValue>>
    /\ UNCHANGED <<dsp, refs, variant, mounted, error, currentTranscript, nStarted, pc,
                   stream, socket, hasAudio, interval, fetch, payload, nFrames, reads,
                   sent, inbox, delivered, placeholder, value, capValue, interimText,
                   edits, failed, errs, report, httpReqs, cancelled, stopsInRow>>

\* The callback of the auto-stop setTimeout.
TimerFire(s) ==
    /\ variant \in BatchVariants
    /\ timer[s]
    /\ timer' = [timer EXCEPT ![s] = FALSE]
    /\ lateTimer' = (lateTimer \/ (recorder[s] # "recording"
                                      /\ \E u \in Sessions : recorder[u] = "recording"))
    /\ IF recorder[s] = "recording"
       THEN /\ recorder' = [recorder EXCEPT ![s] = "inactive"]
            /\ recEvt' = [recEvt EXCEPT ![s] = "queued"]
            /\ isListening' = FALSE
            /\ toggleValue' = Memo(FALSE)
       ELSE UNCHANGED <<recorder, recEvt, isListening, toggleValue>>
    /\ UNCHANGED <<dsp, refs, variant, mounted, error, currentTranscript, nStarted, pc,
                   stream, socket, hasAudio, interval, fetch, payload, nFrames, reads,
                   sent, inbox, delivered, placeholder, value, capValue, interimText,
                   edits, failed, errs, report, httpReqs, cancelled, stopsInRow>>

\* ------------------------------------------------- streaming version
\* Sizes of the blobs of mediaRecorder.start(250); the last one may be empty.
StreamSizes == {0, 1500}

\* The token request settles: the fetch rejects or the status is not ok (the
\* throw is caught), or startRecording goes on to await tokenResponse.json().
TokenDone(s, ok) ==
    /\ variant = "stream"
    /\ pc[s] = "awaitToken"
    /\ stopsInRow' = 0
    /\ IF ok
       THEN /\ pc' = [pc EXCEPT ![s] = "awaitJson"]
            /\ UNCHANGED <<error, failed, errs, report, isListening, toggleValue>>
       ELSE /\ pc' = [pc EXCEPT ![s] = "caught"]
            /\ Fail(s, "Token")
            /\ isListening' = FALSE
            /\ toggleValue' = Memo(FALSE)
    /\ UNCHANGED <<dsp, lateTimer, refs, variant, mounted, currentTranscript, nStarted, stream, socket,
                   recorder, recEvt, hasAudio, interval, timer, fetch, payload, nFrames,
                   reads, sent, inbox, delivered, placeholder, value, capValue,
                   interimText, edits, httpReqs, cancelled>>

\* tokenResponse.json() settles; startRecording goes on to await getUserMedia.
TokenJson(s, ok) ==
    /\ variant = "stream"
    /\ pc[s] = "awaitJson"
    /\ stopsInRow' = 0
    /\ IF ok
       THEN /\ pc' = [pc EXCEPT ![s] = "awaitMic"]
            /\ UNCHANGED <<error, failed, errs, report, isListening, toggleValue>>
       ELSE /\ pc' = [pc EXCEPT ![s] = "caught"]
            /\ Fail(s, "Token")
            /\ isListening' = FALSE
            /\ toggleValue' = Memo(FALSE)
    /\ UNCHANGED <<dsp, lateTimer, refs, variant, mounted, currentTranscript, nStarted, stream, socket,
                   recorder, recEvt, hasAudio, interval, timer, fetch, payload, nFrames,
                   reads, sent, inbox, delivered, placeholder, value, capValue,
                   interimText, edits, httpReqs, cancelled>>

\* getUserMedia resolves: startRecording runs from the await to its end.
MicGrantedStream(s, recOk) ==
    /\ variant = "stream"
    /\ pc[s] = "awaitMic"
    /\ stream' = [stream EXCEPT ![s] = "live"]
    /\ streamRef' = s
    /\ socket' = [socket EXCEPT ![s] = "CONNECTING"]
    /\ socketRef' = s
    /\ stopsInRow' = 0
    /\ IF recOk
       THEN /\ mediaRecorderRef' = s
            /\ recorder' = [recorder EXCEPT ![s] = "recording"]
            /\ pc' = [pc EXCEPT ![s] = "running"]
            /\ UNCHANGED <<error, failed, errs, report, isListening, toggleValue>>
       ELSE /\ pc' = [pc EXCEPT ![s] = "caught"]
            /\ Fail(s, "Recorder")
            /\ isListening' = FALSE
            /\ toggleValue' = Memo(FALSE)
            /\ UNCHANGED <<mediaRecorderRef, recorder>>
    /\ UNCHANGED <<dsp, lateTimer, audioChunksRef, variant, mounted, currentTranscript, nStarted, recEvt,
                   hasAudio, interval, timer, fetch, payload, nFrames, reads, sent,
                   inbox, delivered, placeholder, value, capValue, interimText, edits,
                   httpReqs, cancelled>>

\* socket.onopen
SocketOpen(s) ==
    /\ variant = "stream"
    /\ socket[s] = "CONNECTING"
    /\ socket' = [socket EXCEPT ![s] = "OPEN"]
    /\ isListening' = TRUE
    /\ error' = "null"
    /\ toggleValue' = Memo(TRUE)
    /\ UNCHANGED <<dsp, lateTimer, refs, variant, mounted, currentTranscript, nStarted, pc, stream,
                   recorder, recEvt, hasAudio, interval, timer, fetch, payload, nFrames,
                   reads, sent, inbox, delivered, placeholder, value, capValue,
                   interimText, edits, hist>>

\* An onmessage that does not look at the text.
IsFinalAnyText(type, text) == type = "FinalTranscript"

\* An onmessage that takes partial results as well.
IsFinalOrPartial(type, text) ==
    type \in {"FinalTranscript", "PartialTranscript"} /\ text # <<>>

\* An onmessage that does not look at the message type.
IsFinalAnyType(type, text) == text # <<>>

\* data.message_type === 'FinalTranscript' && data.text in socket.onmessage
IsFinal(type, text) == type = "FinalTranscript" /\ text # <<>>

\* socket.onmessage; the browser delivers messages only while readyState is OPEN.
SocketMessage(s, type, text) ==
    /\ variant = "stream"
    /\ socket[s] = "OPEN"
    /\ Len(inbox) < MaxMsgs
    /\ inbox' = Append(inbox, [s |-> s, type |-> type, text |-> text])
    /\ IF IsFinal(type, text)
       THEN Deliver(s, text)
       ELSE UNCHANGED <<delivered, value>>
    /\ UNCHANGED <<dsp, lateTimer, refs, comp, sess, placeholder, toggleValue, capValue, interimText,
                   edits, hist>>

\* The connection fails: readyState is CLOSED, the error event fires and then,
\* in the same task, the close event.  onerror: setError, stopRecording();
\* onclose: setIsListening(false).
SocketFail(s) ==
    /\ variant = "stream"
    /\ socket[s] \in {"CONNECTING", "OPEN"}
    /\ Fail(s, "Connection")
    /\ StopRecording([socket EXCEPT ![s] = "CLOSED"])
    /\ UNCHANGED <<dsp, lateTimer, audioChunksRef, variant, mounted, nStarted, pc, hasAudio, interval,
                   timer, fetch, payload, nFrames, reads, inbox, placeholder,
                   capValue, interimText, edits, httpReqs>>

\* The connection closes without an error event: the server or the network closed
\* it, or the closing handshake that socket.close() began has ended.
\* onclose: setIsListening(false).
SocketClose(s) ==
    /\ variant = "stream"
    /\ socket[s] \in {"OPEN", "CLOSING"}
    /\ socket' = [socket EXCEPT ![s] = "CLOSED"]
    /\ isListening' = FALSE
    /\ toggleValue' = Memo(FALSE)
    /\ failed' = [failed EXCEPT ![s] = @ \/ socket[s] = "OPEN"]
    /\ UNCHANGED <<dsp, lateTimer, refs, variant, mounted, error, currentTranscript, nStarted, pc, stream,
                   recorder, recEvt, hasAudio, interval, timer, fetch, payload, nFrames,
                   reads, sent, inbox, delivered, placeholder, value, capValue,
                   interimText, edits, errs, report, httpReqs, cancelled, stopsInRow>>

\* event.data.size > 0 && socket.readyState === WebSocket.OPEN in ondataavailable
ReadStarts(s, size) == size > 0 /\ socket[s] = "OPEN"

\* mediaRecorder.ondataavailable: the chunk is handed to a FileReader.
OnData(s, size) ==
    /\ nFrames' = [nFrames EXCEPT ![s] = @ + 1]
    /\ reads' = IF ReadStarts(s, size)
                THEN [reads EXCEPT ![s] = @ \cup {nFrames[s] + 1}]
                ELSE reads

\* A periodic dataavailable event of mediaRecorder.start(250).
RecorderData(s, size) ==
    /\ variant = "stream"
    /\ recorder[s] = "recording"
    /\ nFrames[s] < MaxFrames
    /\ OnData(s, size)
    /\ UNCHANGED <<dsp, lateTimer, refs, comp, nStarted, pc, stream, socket, recorder, recEvt, hasAudio,
                   interval, timer, fetch, payload, sent, cons, hist>>

\* The task mediaRecorder.stop() queues: the last dataavailable event (this
\* version sets no onstop).
StopTaskStream(s, size) ==
    /\ variant = "stream"
    /\ recEvt[s] = "queued"
    /\ recEvt' = [recEvt EXCEPT ![s] = "done"]
    /\ OnData(s, size)
    /\ UNCHANGED <<dsp, lateTimer, refs, comp, nStarted, pc, stream, socket, recorder, hasAudio,
                   interval, timer, fetch, payload, sent, cons, hist>>

\* reader.onloadend: socket.send(JSON.stringify(audioData)).  Reads of different
\* readers may end in any order; send() on a closing or closed socket discards
\* the data without throwing.
ReadDone(s, c) ==
    /\ variant = "stream"
    /\ c \in reads[s]
    /\ reads' = [reads EXCEPT ![s] = @ \ {c}]
    /\ sent' = [sent EXCEPT ![s] = Append(@, <<c, socket[s]>>)]
    /\ UNCHANGED <<dsp, lateTimer, refs, comp, nStarted, pc, stream, socket, recorder, recEvt, hasAudio,
                   interval, timer, fetch, payload, nFrames, cons, hist>>

\* ------------------------------------------------- MathTextarea
\* handleVoiceTranscript of MathTextarea, called with a final result.
MathResult(t) ==
    /\ variant = "math"
    /\ Len(inbox) < MaxMsgs
    /\ inbox' = Append(inbox, [s |-> 0, type |-> "FinalTranscript", text |-> t])
    /\ value' = MathAppend(value, t)
    /\ UNCHANGED <<dsp, lateTimer, refs, comp, sess, delivered, placeholder, toggleValue, capValue,
                   interimText, edits, hist>>

\* handleInterimTranscript of MathTextarea, called with an interim result.
MathInterim(t) ==
    /\ variant = "math"
    /\ Len(inbox) < MaxMsgs
    /\ inbox' = Append(inbox, [s |-> 0, type |-> "PartialTranscript", text |-> t])
    /\ interimText' = t
    /\ UNCHANGED <<dsp, lateTimer, refs, comp, sess, delivered, placeholder, value, toggleValue,
                   capValue, edits, hist>>

\* ------------------------------------------------- PCM resampler
\* The streaming path's resampler, as the specification describes it (4.2):
\* nearest-sample decimation from the source's rate to the transport's rate, then
\* clamping at +-1.0 and scaling by 32767.  Samples are in thousandths: 1000 is 1.0.
InputRate == 44100
OutputRate == 16000
Scale == 32767

SampleValues == {-1500, -1000, 333, 1500}
RECURSIVE SeqsUpTo(_)
\* The sequences of at most n samples.
SeqsUpTo(n) ==
    IF n = 0 THEN {<<>>}
    ELSE LET shorter == SeqsUpTo(n - 1)
         IN  shorter \cup {Append(q, v) : q \in {x \in shorter : Len(x) = n - 1},
                                           v \in SampleValues}
SampleInputs == SeqsUpTo(MaxSamples) \ {<<>>}

\* Math.max(-1, Math.min(1, x))
Clamp(x) == IF x > 1000 THEN 1000 ELSE IF x < -1000 THEN -1000 ELSE x

\* The integer part of a / b (b > 0), as the conversion to an integer takes it.
Trunc(a, b) == IF a >= 0 THEN a \div b ELSE -((-a) \div b)

\* A quantizer that scales without clamping.
QuantizeUnclamped(x) == Trunc(x * Scale, 1000)

\* One sample as a 16-bit signed integer.
Quantize(x) == Trunc(Clamp(x) * Scale, 1000)

\* The number of output samples for n input samples.
OutLen(n) == (n * OutputRate) \div InputRate

\* The input index output index i takes (both from 0).
InIndex(i) == (i * InputRate) \div OutputRate

RECURSIVE ResampleFrom(_, _)
\* The output samples from index i on.
ResampleFrom(in, i) ==
    IF i >= OutLen(Len(in)) THEN <<>>
    ELSE <<Quantize(in[InIndex(i) + 1])>> \o ResampleFrom(in, i + 1)

Resample(in) == ResampleFrom(in, 0)

\* The processing callback of the streaming path, on its first input buffer.
ProcessAudio(in) ==
    /\ variant = "stream"
    /\ samples = <<>>
    /\ samples' = in
    /\ pcm' = Resample(in)
    /\ UNCHANGED <<refs, comp, sess, cons, hist, lateTimer>>

\* ------------------------------------------------- specifications
\* The button and the unmount, in every version of VoiceInput.
Lifecycle ==
    \/ ToggleStart
    \/ ToggleStop
    \/ Unmount
    \/ \E s \in Sessions : MicDenied(s)

BatchEvents ==
    \/ \E s \in Sessions, recOk \in BOOLEAN : MicGrantedBatch(s, recOk)
    \/ \E s \in Sessions, avg \in Levels : CheckAudioLevel(s, avg)
    \/ \E s \in Sessions, size \in ChunkSizes : DataAvailable(s, size)
    \/ \E s \in Sessions, size \in ChunkSizes : StopTask(s, size)
    \/ \E s \in Sessions, r \in Responses : FetchDone(s, r)
    \/ \E s \in Sessions : TimerFire(s)

StreamControl ==
    \/ \E s \in Sessions, ok \in BOOLEAN : TokenDone(s, ok)
    \/ \E s \in Sessions, ok \in BOOLEAN : TokenJson(s, ok)
    \/ \E s \in Sessions, recOk \in BOOLEAN : MicGrantedStream(s, recOk)
    \/ \E s \in Sessions : SocketOpen(s)
    \/ \E s \in Sessions : SocketFail(s)
    \/ \E s \in Sessions : SocketClose(s)

Inbound == \E s \in Sessions, m \in Messages : SocketMessage(s, m.type, m.text)

Outbound ==
    \/ \E s \in Sessions, size \in StreamSizes : RecorderData(s, size)
    \/ \E s \in Sessions, size \in StreamSizes : StopTaskStream(s, size)
    \/ \E s \in Sessions, c \in 1..(MaxFrames + 1) : ReadDone(s, c)

FieldEvents ==
    \/ \E t \in MsgTexts : MathResult(t)
    \/ \E t \in MsgTexts : MathInterim(t)
    \/ \E v \in EditValues : UserEdit(v)

NextBatch == Lifecycle \/ BatchEvents

NextStream == Lifecycle \/ StreamControl \/ Inbound

NextFrames == Lifecycle \/ StreamControl \/ Outbound

NextVoice == Lifecycle \/ BatchEvents \/ StreamControl \/ Inbound

NextField == Lifecycle \/ StreamControl \/ Inbound \/ FieldEvents

Next == Lifecycle \/ BatchEvents \/ StreamControl \/ Inbound \/ Outbound \/ FieldEvents

\* Every version, every event.
Spec == Init /\ [][Next]_vars

\* The three batch versions.
InitBatch == Init /\ variant \in BatchVariants

SpecBatch == InitBatch /\ [][NextBatch]_vars

\* The batch versions with the timers' scheduling: the callback of a setTimeout
\* that was armed is run (nothing in these versions calls clearTimeout).
SpecBatchFair ==
    /\ InitBatch
    /\ [][NextBatch]_vars
    /\ \A s \in Sessions : WF_vars(TimerFire(s))

\* The streaming version with its inbound messages.  The recorder's data events
\* are left to SpecFrames: they change nFrames, reads and sent only, which no
\* other action of this version reads.
InitStream == Init /\ variant = "stream"

SpecStream == InitStream /\ [][NextStream]_vars

\* The streaming version with its outbound audio frames.  The inbound messages
\* are left to SpecStream: they change inbox, delivered and value only.
InitFrames == Init /\ variant = "stream"

SpecFrames == InitFrames /\ [][NextFrames]_vars

\* The four versions of VoiceInput, without the streaming version's audio frames
\* and without edits of the field.
InitVoice == Init /\ variant # "math"

SpecVoice == InitVoice /\ [][NextVoice]_vars

\* The text fields: the streaming version feeding TextareaWithVoice, and
\* MathTextarea, with the user editing the field in between.
InitField == Init /\ variant \in {"stream", "math"}

SpecField == InitField /\ [][NextField]_vars

\* The resampler alone, on every input buffer of at most MaxSamples samples.
NextResample == \E in \in SampleInputs : ProcessAudio(in)

SpecResample == InitStream /\ [][NextResample]_vars

\* ------------------------------------------------- claims
\* A microphone stream is wanted: the component listens, or a start is still
\* suspended at the token, the permission prompt or the channel handshake.
Acquiring(s) == pc[s] \in {"awaitToken", "awaitJson", "awaitMic"} \/ socket[s] = "CONNECTING"

Capturing == isListening \/ \E s \in Sessions : Acquiring(s)

\* C1: when stopRecording() runs while a session's transcription request is in
\* flight, the response that arrives afterwards does not call onTranscript for
\* that session.
C1_NoFinalAfterStop ==
    \A i \in DOMAIN delivered :
        delivered[i].s \in Sessions => ~cancelled[delivered[i].s]

\* C2: the microphone stream is open only while the session is Acquiring or
\* Active: once a session that was recording is back to Idle (by the stop, the
\* auto-stop timer or a channel close), none of its tracks is live.
C2_IdleHasNoLiveTrack ==
    \A s \in Sessions : (pc[s] = "running" /\ stream[s] = "live") => Capturing

\* C3: at most one capture session is live: never two open microphone streams,
\* two recorders recording or two transports connecting or open.
C3_AtMostOneLiveSession ==
    /\ Cardinality({s \in Sessions : stream[s] = "live"}) <= 1
    /\ Cardinality({s \in Sessions : recorder[s] = "recording"}) <= 1
    /\ Cardinality({s \in Sessions : socket[s] \in {"CONNECTING", "OPEN"}}) <= 1

\* C4: the step in which a session fails leaves that session torn down: its
\* microphone stream closed, its transport closed, and the state Idle.
C4_ErrorTearsDown ==
    [][\A s \in Sessions :
          (failed'[s] /\ ~failed[s]) =>
              /\ stream'[s] # "live"
              /\ socket'[s] \notin {"CONNECTING", "OPEN"}
              /\ ~isListening']_vars

\* C5: the step in which a session fails makes exactly one error report for it,
\* and leaves the state Idle.
C5_OneErrorPerFailure ==
    [][\A s \in Sessions :
          (failed'[s] /\ ~failed[s]) => (errs'[s] = 1 /\ ~isListening')]_vars

\* C6: a stopRecording() called by the toggle or the cleanup right after another
\* stopRecording(), with no start activity in between, stops no recorder, no
\* track and no socket again, and delivers no final text, no placeholder and no
\* error.
C6_SecondStopIsNoop ==
    [][(stopsInRow >= 1 /\ (ToggleStop \/ Unmount)) =>
          /\ ~RecorderToStop
          /\ streamRef = 0
          /\ socketRef = 0
          /\ delivered' = delivered
          /\ placeholder' = placeholder
          /\ error' = error]_vars

\* Two stops in a row by the toggle and the cleanup (no socket failed, so onerror
\* called neither), in the streaming version, the first one having released the
\* stream and the socket.
C6_Witness ==
    /\ variant = "stream"
    /\ stopsInRow = 2
    /\ \A s \in Sessions : ~failed[s]
    /\ \E s \in Sessions : stream[s] = "stopped" /\ socket[s] \in {"CLOSING", "CLOSED"}

\* C7: a batch session whose stop handler has run and in which the energy never
\* crossed the threshold has reported NoSpeechDetected and has issued no
\* transcription request.
C7_NoSpeechNoRequest ==
    \A s \in Sessions :
        (recEvt[s] = "done" /\ ~hasAudio[s]) =>
            (report[s] = "NoSpeech" /\ httpReqs[s] = 0 /\ fetch[s] = "none")

\* A silent session of part_001 ended by the auto-stop timer (its stream was
\* never stopped): its stop handler reported NoSpeechDetected.
C7_Witness ==
    /\ variant = "batch15"
    /\ \E s \in Sessions :
          /\ recEvt[s] = "done" /\ ~hasAudio[s] /\ ~timer[s]
          /\ stream[s] = "live" /\ report[s] = "NoSpeech"

\* C8: when the stop handler of a session in which speech was detected finds the
\* accumulated payload below the minimum size, it reports RecordingTooShort, not
\* NoSpeechDetected, and issues no transcription request.
C8_TooShortIndependent ==
    [][\A s \in Sessions, size \in ChunkSizes :
          (StopTask(s, size) /\ hasAudio[s]
              /\ BlobSize(Pushed(audioChunksRef, s, size)) < MinBlobSize) =>
                 (report'[s] = "TooShort" /\ httpReqs'[s] = httpReqs[s])]_vars

\* The partial and final results among the messages q, in order.
Results(q) == SelectSeq(q, LAMBDA m : m.type \in {"PartialTranscript", "FinalTranscript"})

\* The final results with a text among the messages q, in order.
Finals(q) == SelectSeq(q, LAMBDA m : m.type = "FinalTranscript" /\ m.text # <<>>)

EndsWith(v, t) == Len(t) <= Len(v) /\ SubSeq(v, Len(v) - Len(t) + 1, Len(v)) = t

\* C10: a partial result never changes the field's value, and the value a final
\* result leaves ends with the final text.
C10_OnlyFinalsReachValue ==
    [][Len(inbox') > Len(inbox) =>
          LET m == Last(inbox')
          IN  /\ m.type = "PartialTranscript" => value' = value
              /\ (m.type = "FinalTranscript" /\ m.text # <<>>) => EndsWith(value', m.text)]_vars

\* MathTextarea after Partial("h") then Final("hi"): the value is the final text,
\* the partial one is in the overlay only.
C10_Witness ==
    /\ variant = "math"
    /\ Len(inbox) = 2
    /\ inbox[1].type = "PartialTranscript" /\ inbox[1].text = <<"h">>
    /\ inbox[2].type = "FinalTranscript" /\ inbox[2].text = <<"h", "i">>
    /\ interimText = <<"h">>
    /\ value = <<"h", "i">>

\* The onTranscript calls made for session s.
FinalsOf(q, s) == SelectSeq(q, LAMBDA d : d.s = s)

\* C11: in a batch session in which speech was detected, a response with a
\* non-empty text makes exactly one onTranscript call for the session, carrying
\* the (trimmed) text, and leaves the session Idle: its recorder inactive, no
\* error shown, and isListening false unless a later session took the recorder
\* ref.  No session ever gets a second call.
C11_OneFinalThenIdle ==
    /\ [](\A s \in Sessions : Len(FinalsOf(delivered, s)) <= 1)
    /\ [][\A s \in Sessions, r \in Responses :
             (FetchDone(s, r) /\ hasAudio[s] /\ r.kind = "ok" /\ r.hasText
                 /\ Trim(r.text) # <<>>) =>
                   /\ FinalsOf(delivered', s) = <<[s |-> s, text |-> Trim(r.text)]>>
                   /\ recorder'[s] = "inactive"
                   /\ error' = "null"
                   /\ (mediaRecorderRef = s => ~isListening')]_vars

\* The only session of voice-input.tsx was stopped by the auto-stop timer (its
\* stream was never stopped, so stopRecording did not run), speech had been
\* detected, and the response's text was delivered.
C11_Witness ==
    /\ variant = "batch"
    /\ nStarted = 1
    /\ hasAudio[1] /\ ~timer[1] /\ stream[1] = "live" /\ stopsInRow = 0
    /\ fetch[1] = "done"
    /\ delivered = <<[s |-> 1, text |-> <<"a">>]>>
    /\ ~isListening /\ error = "null"

\* The streaming startRecording begins with fetch('/api/voice/realtime-token'):
\* every invocation of it has issued a token request.
TokenRequested(s) == variant = "stream" /\ pc[s] # "unused"

\* C12: when getUserMedia rejects, the session gets one PermissionDenied report,
\* the state is Idle, and the attempt has made no token request, opened no
\* channel and made no transcription request.
C12_DeniedWithoutTransport ==
    [][\A s \in Sessions :
          MicDenied(s) =>
              /\ errs'[s] = 1 /\ report'[s] = "Permission" /\ ~isListening'
              /\ ~TokenRequested(s)
              /\ socket'[s] = "none"
              /\ httpReqs'[s] = 0]_vars

\* The audio frames among the socket.send calls q (chunk 0 is a control message).
Frames(q) == SelectSeq(q, LAMBDA e : e[1] > 0)

\* C13: no audio frame is sent on a socket that is closing or closed: every
\* socket.send of a frame is made while readyState is OPEN.
C13_NoFrameAfterClose ==
    \A s \in Sessions :
        \A i \in DOMAIN Frames(sent[s]) : Frames(sent[s])[i][2] = "OPEN"

\* C14: a channel error, and a close of an open channel that stopRecording() did
\* not ask for, report ConnectionLost for the session and release its recorder
\* and its microphone stream.
C14_LostConnectionFails ==
    [][\A s \in Sessions :
          (SocketFail(s) \/ (SocketClose(s) /\ socket[s] = "OPEN")) =>
              /\ report'[s] = "Connection"
              /\ recorder'[s] # "recording"
              /\ stream'[s] # "live"]_vars

\* A start still suspended at the token request or the permission prompt.
Suspended(s) == pc[s] \in {"awaitToken", "awaitJson", "awaitMic"}

\* C15: once the cleanup's stopRecording() has run, a start that was suspended
\* at that moment is cancelled: when its pending operation completes, the session
\* has no live stream, opens no socket and gets no callback.
C15_StopCancelsPendingStart ==
    [][\A s \in Sessions :
          (~mounted /\ Suspended(s) /\ pc'[s] # pc[s]) =>
              /\ stream'[s] # "live"
              /\ socket'[s] = "none"
              /\ FinalsOf(delivered', s) = <<>>]_vars

\* C16: a stopRecording() called by the toggle or the cleanup while the socket of
\* the session is open sends the terminate message on it before closing it.
C16_TerminateBeforeClose ==
    [][\A s \in Sessions :
          ((ToggleStop \/ Unmount) /\ socketRef = s /\ socket[s] = "OPEN") =>
              /\ socket'[s] = "CLOSING"
              /\ sent'[s] = Append(sent[s], <<0, "OPEN">>)]_vars

\* C18: the audio frames are sent in the order their chunks were captured.
C18_FramesInCaptureOrder ==
    \A s \in Sessions :
        \A i, j \in DOMAIN Frames(sent[s]) :
            i < j => Frames(sent[s])[i][1] < Frames(sent[s])[j][1]

\* C17: a transcription response yields exactly one outcome.  A rejected fetch
\* or a status that is not ok: one TranscriptionFailed report and no final text.
\* A missing, empty or white-space text: one EmptyResult report and no final
\* text.  Otherwise: one onTranscript call with the trimmed text, and no error.
C17_OneOutcomePerResponse ==
    [][\A s \in Sessions, r \in Responses :
          FetchDone(s, r) =>
              IF r.kind # "ok"
              THEN /\ report'[s] = "Transcription" /\ error' = "Transcription"
                   /\ errs'[s] = errs[s] + 1
                   /\ delivered' = delivered
              ELSE IF ~r.hasText \/ Trim(r.text) = <<>>
              THEN /\ report'[s] = "Empty" /\ error' = "Empty"
                   /\ errs'[s] = errs[s] + 1
                   /\ delivered' = delivered
              ELSE /\ delivered' = Append(delivered, [s |-> s, text |-> Trim(r.text)])
                   /\ Trim(r.text) # <<>>
                   /\ errs' = errs /\ error' = "null"]_vars

\* Two requests of part_001 have been answered: one with a text, delivered
\* trimmed, one without a usable text, reported as EmptyResult.
C17_Witness ==
    /\ variant = "batch15"
    /\ \E s, u \in Sessions :
          /\ fetch[s] = "done" /\ FinalsOf(delivered, s) = <<[s |-> s, text |-> <<"a">>]>>
          /\ fetch[u] = "done" /\ FinalsOf(delivered, u) = <<>> /\ report[u] = "Empty"

\* C19: resampling N samples at 44100 Hz to 16000 Hz yields exactly
\* floor(N * 16000 / 44100) samples, output index i being made from input index
\* floor(i * 44100 / 16000), and every output sample is an integer in
\* [-32768, 32767].
C19_ResampleLengthAndRange ==
    samples # <<>> =>
        /\ Len(pcm) = (Len(samples) * 16000) \div 44100
        /\ \A i \in 0..(Len(pcm) - 1) :
              /\ (i * 44100) \div 16000 < Len(samples)
              /\ pcm[i + 1] = Quantize(samples[((i * 44100) \div 16000) + 1])
              /\ pcm[i + 1] \in -32768..32767

\* Six samples whose output is two samples, made from input indices 0 and 2, both
\* beyond +-1.0 and clamped to the ends of the range.
C19_Witness ==
    /\ Len(samples) = 6 /\ samples[1] = 1500 /\ samples[2] = 333 /\ samples[3] = -1500
    /\ pcm = <<32767, -32767>>

\* C20: every final text delivered to the field of TextareaWithVoice is appended
\* to the value the field has at that moment: the new value is that value
\* followed by the final text, so that no earlier final text and no edit is lost.
C20_FinalsAppendToCurrentValue ==
    [][(variant = "stream" /\ Len(inbox') > Len(inbox)
            /\ Last(inbox').type = "FinalTranscript" /\ Last(inbox').text # <<>>) =>
          value' = PlainAppend(value, Last(inbox').text)]_vars

\* C21: the last chunk, which the recorder emits when it is stopped, is sent.
\* After a stop of a session that has not failed, on the mounted component (a
\* stop by the button), when the chunk's dataavailable event arrives with data
\* the socket is still open and the chunk is handed to a FileReader, whose
\* onloadend sends it.
C21_LastChunkSent ==
    [][\A s \in Sessions, size \in StreamSizes :
          (StopTaskStream(s, size) /\ size > 0 /\ mounted /\ ~failed[s]) =>
              /\ socket[s] = "OPEN"
              /\ (nFrames[s] + 1) \in reads'[s]]_vars

\* C22: the payload of a transcription request holds chunks of the session's own
\* recorder only, and a start never empties audioChunksRef of chunks that
\* another session has recorded and not yet sent.
C22_PayloadIsOwnChunks ==
    /\ [](\A s \in Sessions : \A i \in DOMAIN payload[s] : payload[s][i].s = s)
    /\ [][\A s \in Sessions :
             (pc[s] = "awaitMic" /\ pc'[s] # "awaitMic") =>
                 \A i \in DOMAIN audioChunksRef :
                     audioChunksRef[i].s # s =>
                         \E j \in DOMAIN audioChunksRef' :
                             audioChunksRef'[j] = audioChunksRef[i]]_vars

\* C23: a batch session issues at most one transcription request, whatever the
\* order of the button's stop, the auto-stop timer and the cleanup.
C23_AtMostOneRequest ==
    \A s \in Sessions : httpReqs[s] <= 1

\* A session stopped by the button, whose request was issued, then its timer
\* fired and the component unmounted: still one request.
C23_Witness ==
    /\ variant \in BatchVariants
    /\ ~mounted /\ stopsInRow = 2
    /\ \E s \in Sessions :
          /\ pc[s] = "running" /\ ~timer[s] /\ recEvt[s] = "done"
          /\ stream[s] = "stopped"
          /\ httpReqs[s] = 1

\* C24: a batch session whose recorder is recording eventually has it stopped,
\* with the component Idle, even if nobody stops it: the auto-stop timer does.
C24_RecordingEnds ==
    \A s \in Sessions :
        (recorder[s] = "recording") ~> (recorder[s] = "inactive" /\ ~isListening)

\* The only session was ended by its timer: its recorder is inactive, the
\* component Idle, and stopRecording() never ran (the stream is still live).
C24_Witness ==
    /\ variant \in BatchVariants
    /\ mounted /\ nStarted = 1 /\ stopsInRow = 0
    /\ recorder[1] = "inactive" /\ ~timer[1] /\ stream[1] = "live"
    /\ ~isListening

\* C25: the timer of a session whose recorder was already stopped changes
\* nothing when it fires: no recorder is stopped, no stop event queued, and the
\* listening state stays as it is, also while a later session is recording.
C25_LateTimerIsHarmless ==
    [][\A s \in Sessions :
          (TimerFire(s) /\ recorder[s] # "recording") =>
              /\ recorder' = recorder
              /\ recEvt' = recEvt
              /\ isListening' = isListening]_vars

\* The timer of a stopped session has fired while another session was recording,
\* and that session is still recording, the component still listening.
C25_Witness ==
    /\ lateTimer
    /\ mounted /\ isListening
    /\ \E s, u \in Sessions :
          /\ recorder[s] = "inactive" /\ ~timer[s]
          /\ recorder[u] = "recording" /\ mediaRecorderRef = u /\ timer[u]

\* C26: once stopRecording() has stopped a session (its stream is stopped), a tick
\* of the session's checkAudioLevel no longer calls
\* onPartialTranscript('Recording...').
C26_NoPlaceholderAfterStop ==
    [][\A s \in Sessions, avg \in Levels :
          (CheckAudioLevel(s, avg) /\ stream[s] = "stopped") =>
              placeholder'[s] = placeholder[s]]_vars

\* C27: socket.onmessage calls onTranscript exactly when the message is a
\* FinalTranscript with a non-empty text, with that text; whatever the message,
\* it leaves the listening state, the error, the refs and the session's stream,
\* socket and recorder as they are.
C27_OnMessageFrame ==
    [][\A s \in Sessions, m \in Messages :
          SocketMessage(s, m.type, m.text) =>
              /\ IF m.type = "FinalTranscript" /\ m.text # <<>>
                 THEN delivered' = Append(delivered, [s |-> s, text |-> m.text])
                 ELSE delivered' = delivered /\ value' = value
              /\ placeholder' = placeholder
              /\ isListening' = isListening /\ error' = error
              /\ refs' = refs
              /\ stream' = stream /\ socket' = socket /\ recorder' = recorder
              /\ errs' = errs]_vars

\* A session control message and then a final result were received on the open
\* socket: one callback, the component still listening, its handles in place.
C27_Witness ==
    /\ variant = "stream"
    /\ Len(inbox) = 2
    /\ inbox[1].type = "SessionBegins"
    /\ inbox[2].type = "FinalTranscript" /\ inbox[2].text = <<"h">>
    /\ delivered = <<[s |-> 1, text |-> <<"h">>]>>
    /\ isListening /\ error = "null"
    /\ socketRef = 1 /\ socket[1] = "OPEN" /\ recorder[1] = "recording"

=============================================================================
